---- MODULE Spec2Model ----
(***************************************************************************)
(* Model of the kubeflow/notebooks CRUD web-app backends and of the        *)
(* release script update-manifests-images.py.                              *)
(*                                                                         *)
(*   Spec         the PVC operations of crud_backend/api/pvc.py            *)
(*   SpecList     the list operations (list_pvcs, tensorboards route)      *)
(*   SpecStartup  start of the volumes backend (entrypoint.py, settings.py)*)
(*   SpecUpdater  releasing/update-manifests-images.py                     *)
(***************************************************************************)
EXTENDS Integers, Sequences, FiniteSets, TLC

VARIABLES
    \* ---- process-wide settings (settings.py) ----
    envDisableAuth,   \* value of APP_DISABLE_AUTH in the environment
    DISABLE_AUTH,     \* settings.DISABLE_AUTH, computed once at import
    \* ---- the cluster behind the Resource Client Adapter ----
    cluster,          \* sequence of PVC objects [name, namespace, size]
    tensorboards,     \* sequence of tensorboard custom resources
    \* ---- the request being served ----
    pc,               \* "idle" | "run" | "done"
    ip,               \* index in program of the next call, 0 when not running
    req,              \* the operation invoked and its arguments
    program,          \* the calls the operation makes, in program order
    trace,            \* the calls made so far, with their outcomes
    result,           \* what the operation returned or raised
    clusterAtCall,    \* cluster when the operation was invoked (history)
    \* ---- start of the volumes backend (entrypoint.py) ----
    env,              \* APP_NAME, BACKEND_MODE, UI_FLAVOR, APP_PREFIX
    startPc,          \* "import" | "config" | "flavor" | "serving" | "exited"
    cfg,              \* the config object returned by get_config
    apps,             \* the apps created, in order
    exitCode,         \* exit code of the backend process, -1 while alive
    \* ---- update-manifests-images.py ----
    files,            \* the kustomization files, by path
    origFiles,        \* the files before the first run (history)
    applied,          \* per file, the tags of the last two runs that wrote it
    tag,              \* the tag argument of the current run
    appIdx,           \* index of the application the loop is at
    updPc,            \* "shell" | "loop" | "exited"
    updExit,          \* exit code of the last run, -1 before any exit
    written,          \* the files written back in the current run (history)
    failure           \* the exception raised in the current run, "" if none

apiVars == <<envDisableAuth, DISABLE_AUTH, cluster, tensorboards, pc, ip, req,
             program, trace, result, clusterAtCall>>
startVars == <<env, startPc, cfg, apps, exitCode>>
updVars == <<files, origFiles, applied, tag, appIdx, updPc, updExit, written,
            failure>>
vars == <<apiVars, startVars, updVars>>

----------------------------------------------------------------------------
(* Bounds of the model *)

MaxPvcs == 2
MaxTbs == 2
MaxImages == 2

----------------------------------------------------------------------------
(* Python values the model needs *)

None == "None"
Unset == "<unset>"

\* str.lower() on the strings the model uses
str_lower(s) ==
    CASE s = "TRUE" -> "true"
      [] s = "True" -> "true"
      [] s = "FALSE" -> "false"
      [] s = "False" -> "false"
      [] OTHER -> s

PyStr(s) == [type |-> "str", val |-> s, name |-> ""]
\* the bound method object  s.<name>  (an attribute access without a call)
PyBoundMethod(s, name) == [type |-> "builtin_method", val |-> s, name |-> name]
\* ==  between two Python objects: a method object never equals a str
PyEq(a, b) == a.type = b.type /\ a = b

os_getenv(value, default) == IF value = Unset THEN default ELSE value

----------------------------------------------------------------------------
(* settings.py *)

EnvDisableValues == {Unset, "false", "true", "True", "TRUE"}

\* settings.py:3   os.getenv("APP_DISABLE_AUTH", "false").lower == "true"
settings_DISABLE_AUTH(value) ==
    PyEq(PyBoundMethod(os_getenv(value, "false"), "lower"), PyStr("true"))

----------------------------------------------------------------------------
(* The cluster: identities, access review, objects *)

Users == {"alice", "bob"}
Namespaces == {"ns1", "ns2"}
PvcNames == {"p1", "p2"}
Sizes == {1, 2}
TbNames == {"t1", "t2"}

PVC == "persistentvolumeclaims"
TB == "tensorboards"

\* what the cluster's access review answers
Rbac ==
    {<<"alice", v, PVC, n>> : v \in {"create", "delete", "list", "patch"},
                              n \in Namespaces}
    \cup {<<"alice", "list", TB, n>> : n \in Namespaces}
    \cup {<<"bob", "list", PVC, "ns1">>, <<"bob", "list", TB, "ns1">>}

PvcObj(name, ns, size) == [name |-> name, size |-> size, namespace |-> ns]
TbObj(name, ns) ==
    [name |-> name, namespace |-> ns, logspath |-> "pvc://" \o name]

Keys(objs) == {<<objs[i].namespace, objs[i].name>> : i \in 1..Len(objs)}
InNs(objs, ns) == SelectSeq(objs, LAMBDA o : o.namespace = ns)
Exists(objs, ns, name) == <<ns, name>> \in Keys(objs)

SeqsUpTo(S, n) == UNION {[1..k -> S] : k \in 0..n}
DistinctKeys(objs) == Cardinality(Keys(objs)) = Len(objs)

----------------------------------------------------------------------------
(* crud_backend/api: the calls an operation makes, in program order *)

Call(api, method, group, version, resource, namespace, name, size, dry_run) ==
    [name |-> name, size |-> size, namespace |-> namespace, api |-> api,
     method |-> method, group |-> group, version |-> version,
     resource |-> resource, dry_run |-> dry_run]

\* authz.ensure_authorized(verb, group, version, resource, namespace)
ensure_authorized(verb, group, version, resource, namespace) ==
    Call("authz", verb, group, version, resource, namespace, "", 0, None)

\* a method of the client  v1_core  (kubernetes CoreV1Api)
v1_core(method, namespace, name, size, dry_run) ==
    Call("v1_core", method, "", "v1", PVC, namespace, name, size, dry_run)

\* a method of the custom-objects client
custom_api(method, group, version, resource, namespace) ==
    Call("custom_api", method, group, version, resource, namespace, "", 0, None)

\* variant of create_pvc: the gate check is missing
create_pvc_no_gate(pvc, namespace, dry_run) ==
    << v1_core("create_namespaced_persistent_volume_claim", namespace,
               pvc.name, pvc.size, IF dry_run THEN "All" ELSE None) >>

\* variant of create_pvc: dry_run is not forwarded
create_pvc_drops_dry_run(pvc, namespace, dry_run) ==
    << ensure_authorized("create", "", "v1", PVC, namespace),
       v1_core("create_namespaced_persistent_volume_claim", namespace,
               pvc.name, pvc.size, None) >>

\* pvc.py:5-11
create_pvc(pvc, namespace, dry_run) ==
    << ensure_authorized("create", "", "v1", PVC, namespace),
       v1_core("create_namespaced_persistent_volume_claim", namespace,
               pvc.name, pvc.size, IF dry_run THEN "All" ELSE None) >>

\* pvc.py:14-18
delete_pvc(pvc, namespace) ==
    << ensure_authorized("delete", "", "v1", PVC, namespace),
       v1_core("delete_namespaced_persistent_volume_claim", namespace,
               pvc, 0, None) >>

\* pvc.py:21-25
list_pvcs(namespace) ==
    << ensure_authorized("list", "", "v1", PVC, namespace),
       v1_core("list_namespaced_persistent_volume_claim", namespace,
               "", 0, None) >>

\* variant of patch_pvc: auth is ignored
patch_pvc_always_gated(name, namespace, pvc, auth) ==
    << ensure_authorized("patch", "", "v1", PVC, namespace),
       v1_core("patch_namespaced_persistent_volume_claim", namespace,
               name, pvc.size, None) >>

\* pvc.py:28-34
patch_pvc(name, namespace, pvc, auth) ==
    (IF auth
        THEN << ensure_authorized("patch", "", "v1", PVC, namespace) >>
        ELSE << >>)
    \o << v1_core("patch_namespaced_persistent_volume_claim", namespace,
                  name, pvc.size, None) >>

\* api.list_custom_rsrc(group, version, kind, namespace)
list_custom_rsrc(group, version, kind, namespace) ==
    << ensure_authorized("list", group, version, kind, namespace),
       custom_api("list_namespaced_custom_object", group, version, kind,
                  namespace) >>

\* The statements of an operation run in sequence and nothing catches an
\* exception: after call number i the operation goes on to call i + 1 when
\* the call returned, and is left (0) when the call raised.
\* variant: a call that raised is made again
Continue_retry(i, outcome) == IF outcome = "ok" THEN i + 1 ELSE i

\* pvc.py:5-34
Continue(i, outcome) == IF outcome = "ok" THEN i + 1 ELSE 0

\* the operations whose signature has the keyword  auth
AcceptsAuth(op) == op = "patch_pvc"

\* a keyword argument that may be left out: "omitted" | "True" | "False"
Kw == {"omitted", "True", "False"}
KwValue(kw, default) == IF kw = "omitted" THEN default ELSE kw = "True"

----------------------------------------------------------------------------
(* tensorboards/backend/app *)

\* utils.parse_tensorboard(tensorboard)
parse_tensorboard(tensorboard) ==
    [name |-> tensorboard.name, namespace |-> tensorboard.namespace,
     logspath |-> tensorboard.logspath, parsed |-> TRUE]

Reverse(s) == [i \in 1..Len(s) |-> s[Len(s) + 1 - i]]

\* variant: the items are taken last to first
get_tensorboards_content_reversed(items) ==
    [i \in 1..Len(items) |-> parse_tensorboard(Reverse(items)[i])]

\* get.py:15-18   [utils.parse_tensorboard(t) for t in tensorboards["items"]]
get_tensorboards_content(items) ==
    [i \in 1..Len(items) |-> parse_tensorboard(items[i])]

\* what an operation returns, given what its last call returned
Returned(op, ret) ==
    IF op = "get_tensorboards" THEN get_tensorboards_content(ret) ELSE ret

----------------------------------------------------------------------------
(* Serving a request: invocation, the gate, the adapter, the return *)

NoReq == [name |-> "", size |-> 0, namespace |-> "", dry_run |-> "omitted",
          auth |-> "omitted", op |-> "", user |-> ""]
NoResult == [value |-> << >>, status |-> ""]

Request(op, user, namespace, name, size, dry_run, auth) ==
    [name |-> name, size |-> size, namespace |-> namespace,
     dry_run |-> dry_run, auth |-> auth, op |-> op, user |-> user]

\* Python binds the arguments, then runs the body: a keyword the signature
\* does not have raises TypeError before any statement of the body.
Invoke(r, prog) ==
    /\ pc = "idle"
    /\ req' = r
    /\ clusterAtCall' = cluster
    /\ trace' = << >>
    /\ IF r.auth # "omitted" /\ ~AcceptsAuth(r.op)
          THEN /\ pc' = "done"
               /\ ip' = 0
               /\ program' = << >>
               /\ result' = [value |-> << >>, status |-> "TypeError"]
          ELSE /\ pc' = "run"
               /\ ip' = 1
               /\ program' = prog
               /\ result' = NoResult
    /\ UNCHANGED <<envDisableAuth, DISABLE_AUTH, cluster, tensorboards>>
    /\ UNCHANGED <<startVars, updVars>>

CreatePvc ==
    \E u \in Users, n \in Namespaces, name \in PvcNames, size \in Sizes,
       dry \in Kw, auth \in Kw :
        /\ pc = "idle"
        /\ Invoke(Request("create_pvc", u, n, name, size, dry, auth),
                  create_pvc(PvcObj(name, n, size), n, KwValue(dry, FALSE)))

DeletePvc ==
    \E u \in Users, n \in Namespaces, name \in PvcNames, auth \in Kw :
        /\ pc = "idle"
        /\ Invoke(Request("delete_pvc", u, n, name, 0, "omitted", auth),
                  delete_pvc(name, n))

ListPvcs ==
    \E u \in Users, n \in Namespaces, auth \in Kw :
        /\ pc = "idle"
        /\ Invoke(Request("list_pvcs", u, n, "", 0, "omitted", auth),
                  list_pvcs(n))

PatchPvc ==
    \E u \in Users, n \in Namespaces, name \in PvcNames, size \in Sizes,
       auth \in Kw :
        /\ pc = "idle"
        /\ Invoke(Request("patch_pvc", u, n, name, size, "omitted", auth),
                  patch_pvc(name, n, PvcObj(name, n, size), KwValue(auth, TRUE)))

\* get.py:9-20   the route  GET /api/namespaces/<namespace>/tensorboards
GetTensorboards ==
    \E u \in Users, n \in Namespaces :
        /\ pc = "idle"
        /\ Invoke(Request("get_tensorboards", u, n, "", 0, "omitted", "omitted"),
                  list_custom_rsrc("tensorboard.kubeflow.org", "v1alpha1",
                                   TB, n))

\* the operation after its call number ip ended with  outcome
Step(c, outcome, ret, newCluster) ==
    /\ trace' = Append(trace, [outcome |-> outcome, ret |-> ret, call |-> c])
    /\ cluster' = newCluster
    /\ LET n == Continue(ip, outcome) IN
         IF n = 0
           THEN /\ pc' = "done"
                /\ ip' = 0
                /\ result' = [value |-> << >>, status |-> outcome]
           ELSE IF n > Len(program)
             THEN /\ pc' = "done"
                  /\ ip' = 0
                  /\ result' = [value |-> Returned(req.op, ret),
                                status |-> "ok"]
             ELSE /\ pc' = "run"
                  /\ ip' = n
                  /\ result' = result
    /\ UNCHANGED <<envDisableAuth, DISABLE_AUTH, tensorboards, req, program,
                   clusterAtCall>>
    /\ UNCHANGED <<startVars, updVars>>

\* authz.ensure_authorized: the access review of the caller's identity,
\* short-circuited to allow when settings.DISABLE_AUTH is set
Authorized(user, c) ==
    DISABLE_AUTH \/ <<user, c.method, c.resource, c.namespace>> \in Rbac

EnsureAuthorized ==
    /\ pc = "run"
    /\ program[ip].api = "authz"
    /\ Step(program[ip],
            IF Authorized(req.user, program[ip]) THEN "ok" ELSE "Unauthorized",
            << >>, cluster)

\* What the cluster may answer to an adapter call: the outcome, the value
\* returned and the PVCs persisted afterwards.
Answer(outcome, ret, objs) == [cluster |-> objs, outcome |-> outcome, ret |-> ret]

AdapterAnswers(c) ==
    {Answer("UpstreamError", << >>, cluster)} \cup
    CASE c.method = "create_namespaced_persistent_volume_claim" ->
           LET obj == PvcObj(c.name, c.namespace, c.size) IN
           IF Exists(cluster, c.namespace, c.name)
             THEN {Answer("Conflict", << >>, cluster)}
           ELSE IF c.dry_run = "All"
             THEN {Answer("ok", <<obj>>, cluster)}
           ELSE IF Len(cluster) >= MaxPvcs
             THEN { }     \* quota exceeded: an upstream error
           ELSE {Answer("ok", <<obj>>, Append(cluster, obj))}
      [] c.method = "delete_namespaced_persistent_volume_claim" ->
           IF Exists(cluster, c.namespace, c.name)
             THEN {Answer("ok", << >>,
                     SelectSeq(cluster, LAMBDA o :
                        <<o.namespace, o.name>> # <<c.namespace, c.name>>))}
             ELSE {Answer("NotFound", << >>, cluster)}
      [] c.method = "patch_namespaced_persistent_volume_claim" ->
           IF Exists(cluster, c.namespace, c.name)
             THEN LET i == CHOOSE i \in 1..Len(cluster) :
                              <<cluster[i].namespace, cluster[i].name>>
                                  = <<c.namespace, c.name>>
                      obj == PvcObj(c.name, c.namespace, c.size)
                  IN {Answer("ok", <<obj>>, [cluster EXCEPT ![i] = obj]),
                      Answer("Conflict", << >>, cluster)}
             ELSE {Answer("NotFound", << >>, cluster)}
      [] c.method = "list_namespaced_persistent_volume_claim" ->
           {Answer("ok", InNs(cluster, c.namespace), cluster)}
      [] c.method = "list_namespaced_custom_object" ->
           {Answer("ok", InNs(tensorboards, c.namespace), cluster)}

AdapterCall ==
    /\ pc = "run"
    /\ program[ip].api \in {"v1_core", "custom_api"}
    /\ \E a \in AdapterAnswers(program[ip]) :
          Step(program[ip], a.outcome, a.ret, a.cluster)

\* the caller has the result; the worker takes the next request
Return ==
    /\ pc = "done"
    /\ pc' = "idle"
    /\ ip' = 0
    /\ req' = NoReq
    /\ program' = << >>
    /\ trace' = << >>
    /\ result' = NoResult
    /\ clusterAtCall' = << >>
    /\ UNCHANGED <<envDisableAuth, DISABLE_AUTH, cluster, tensorboards>>
    /\ UNCHANGED <<startVars, updVars>>

----------------------------------------------------------------------------
(* volumes/backend/entrypoint.py *)

\* config.BackendMode
BackendMode ==
    [DEVELOPMENT |-> "dev", DEVELOPMENT_FULL |-> "development",
     PRODUCTION |-> "prod", PRODUCTION_FULL |-> "production"]

\* entrypoint.py:12-17
config_classes ==
    (BackendMode.DEVELOPMENT :> "DevConfig")
    @@ (BackendMode.DEVELOPMENT_FULL :> "DevConfig")
    @@ (BackendMode.PRODUCTION :> "ProdConfig")
    @@ (BackendMode.PRODUCTION_FULL :> "ProdConfig")

NoConfig == [raised |-> FALSE, class |-> "", PREFIX |-> ""]

\* variant of get_config: an unknown mode falls back to ProdConfig
get_config_falls_back(mode) ==
    IF mode \in DOMAIN config_classes
      THEN [raised |-> FALSE, class |-> config_classes[mode], PREFIX |-> ""]
      ELSE [raised |-> FALSE, class |-> "ProdConfig", PREFIX |-> ""]

\* entrypoint.py:10-22   the config instance, or RuntimeError raised
get_config(mode) ==
    IF mode \in DOMAIN config_classes
      THEN [raised |-> FALSE, class |-> config_classes[mode], PREFIX |-> ""]
      ELSE [raised |-> TRUE, class |-> "", PREFIX |-> ""]

EnvValues ==
    [APP_NAME : {Unset, "My Volumes"},
     BACKEND_MODE : {Unset, "dev", "development", "prod", "production",
                     "staging", ""},
     UI_FLAVOR : {Unset, "default", "rok", "other"},
     APP_PREFIX : {Unset, "/volumes"}]

APP_NAME == os_getenv(env.APP_NAME, "Volumes Web App")
BACKEND_MODE == os_getenv(env.BACKEND_MODE, BackendMode.PRODUCTION)
UI_FLAVOR == os_getenv(env.UI_FLAVOR, "default")
PREFIX == os_getenv(env.APP_PREFIX, "/")

\* <flavor>.create_app(name, cfg)
create_app(flavor, name, c) == [cfg |-> c, name |-> name, flavor |-> flavor]

\* entrypoint.py:31-32   an exception at module level ends the process with
\* a traceback and exit code 1
GetConfig ==
    /\ startPc = "config"
    /\ LET c == get_config(BACKEND_MODE) IN
         IF c.raised
           THEN /\ startPc' = "exited"
                /\ exitCode' = 1
                /\ cfg' = cfg
           ELSE /\ startPc' = "flavor"
                /\ exitCode' = exitCode
                /\ cfg' = [c EXCEPT !.PREFIX = PREFIX]
    /\ UNCHANGED <<env, apps>>
    /\ UNCHANGED <<apiVars, updVars>>

\* entrypoint.py:35-41
LoadApp ==
    /\ startPc = "flavor"
    /\ IF UI_FLAVOR = "default"
          THEN /\ apps' = Append(apps, create_app("default", APP_NAME, cfg))
               /\ startPc' = "serving"
               /\ exitCode' = exitCode
        ELSE IF UI_FLAVOR = "rok"
          THEN /\ apps' = Append(apps, create_app("rok", APP_NAME, cfg))
               /\ startPc' = "serving"
               /\ exitCode' = exitCode
        ELSE /\ apps' = apps
             /\ startPc' = "exited"
             /\ exitCode' = 1
    /\ UNCHANGED <<env, cfg>>
    /\ UNCHANGED <<apiVars, updVars>>

----------------------------------------------------------------------------
(* releasing/update-manifests-images.py *)

\* update-manifests-images.py:35-114, the first two of the six applications
\* (the other four have the same shape: one kustomization, one image)
applications ==
    << [name |-> "Jupyter Web App",
        kustomization |->
          "components/crud-web-apps/jupyter/manifests/base/kustomization.yaml",
        images |->
          << [name |-> "ghcr.io/kubeflow/notebooks/jupyter-web-app",
              newName |-> "ghcr.io/kubeflow/notebooks/jupyter-web-app"] >>],
       [name |-> "Tensorboards Web App",
        kustomization |->
          "components/crud-web-apps/tensorboards/manifests/base/kustomization.yaml",
        images |->
          << [name |-> "ghcr.io/kubeflow/kubeflow/tensorboards-web-app",
              newName |-> "ghcr.io/kubeflow/kubeflow/tensorboards-web-app"] >>] >>

Paths == {applications[i].kustomization : i \in 1..Len(applications)}
Tags == {"v1", "v2"}

Image(name, newName, newTag) ==
    [name |-> name, newName |-> newName, newTag |-> newTag]

\* A kustomization file: absent from disk ("missing"), not a YAML mapping
\* ("invalid"), or a document ("doc") whose  images  key is "absent", "null"
\* or a "list".
File(kind, key, images) == [kind |-> kind, images |-> images, key |-> key]

\* the entries a file of application  a  may hold before the first run
EntriesOf(a) ==
    {Image(a.images[1].name, a.images[1].newName, "v0"),
     Image(a.images[1].name, "registry.local/mirror", "v0"),
     Image("ghcr.io/kubeflow/unrelated", "ghcr.io/kubeflow/unrelated", "v0")}

FilesOf(a) ==
    {File("missing", "absent", << >>), File("invalid", "absent", << >>),
     File("doc", "absent", << >>), File("doc", "null", << >>)}
    \cup {File("doc", "list", l) : l \in SeqsUpTo(EntriesOf(a), MaxImages)}

\* index of the first entry of  images  named  name, 0 if there is none
FirstMatch(images, name) ==
    IF \E i \in 1..Len(images) : images[i].name = name
      THEN CHOOSE i \in 1..Len(images) :
             /\ images[i].name = name
             /\ \A j \in 1..(i - 1) : images[j].name # name
      ELSE 0

\* variant of update_image: found is never set
update_image_always_appends(images, target, t) ==
    Append(images, Image(target.name, target.newName, t))

\* variant of update_image: a new entry is put first
update_image_prepends(images, target, t) ==
    LET i == FirstMatch(images, target.name) IN
    IF i # 0
      THEN [images EXCEPT ![i] = Image(images[i].name, target.newName, t)]
      ELSE << Image(target.name, target.newName, t) >> \o images

\* update-manifests-images.py:125-136   one target image
update_image(images, target, t) ==
    LET i == FirstMatch(images, target.name) IN
    IF i # 0
      THEN [images EXCEPT ![i] = Image(images[i].name, target.newName, t)]
      ELSE Append(images, Image(target.name, target.newName, t))

\* update-manifests-images.py:124-136   the loop over the target images
RECURSIVE update_images(_, _, _)
update_images(images, targets, t) ==
    IF targets = << >>
      THEN images
      ELSE update_images(update_image(images, Head(targets), t),
                         Tail(targets), t)

\* update-manifests-images.py:123   kustomize.get("images", [])
kustomize_get_images(f) == IF f.key = "list" THEN f.images ELSE << >>

\* Nothing in update_manifests_images or main catches an exception: after
\* iteration i the loop goes on to i + 1, or is left (0) when it raised.
\* variant: the failure is logged and the loop goes on
loop_next_swallows(i, raised) == i + 1

\* update-manifests-images.py:117-140
loop_next(i, raised) == IF raised THEN 0 ELSE i + 1

\* sys.exit(main()): main returns None (exit code 0); an uncaught exception
\* ends the process with exit code 1
exit_code(raised) == IF raised THEN 1 ELSE 0

\* update-manifests-images.py:143-152   main, with or without the tag argument
RunUpdater ==
    /\ updPc \in {"shell", "exited"}
    /\ written' = { }
    /\ \E t \in Tags \cup {Unset} :
          IF t = Unset
            THEN /\ updPc' = "exited"       \* argparse: usage error
                 /\ updExit' = 2
                 /\ failure' = "usage"
                 /\ UNCHANGED <<tag, appIdx>>
            ELSE /\ updPc' = "loop"
                 /\ updExit' = -1
                 /\ failure' = ""
                 /\ tag' = t
                 /\ appIdx' = 1
    /\ UNCHANGED <<files, origFiles, applied>>
    /\ UNCHANGED <<apiVars, startVars>>

\* the loop left after iteration appIdx
Leave(raised, exc) ==
    LET n == loop_next(appIdx, raised) IN
    /\ failure' = IF raised THEN exc ELSE failure
    /\ IF n = 0
          THEN /\ updPc' = "exited"
               /\ updExit' = exit_code(TRUE)
               /\ appIdx' = appIdx
          ELSE IF n > Len(applications)
            THEN /\ updPc' = "exited"
                 /\ updExit' = exit_code(FALSE)
                 /\ appIdx' = n
            ELSE /\ updPc' = "loop"
                 /\ updExit' = updExit
                 /\ appIdx' = n

\* update-manifests-images.py:118-140   one iteration of the loop
UpdateApp ==
    /\ updPc = "loop"
    /\ LET application == applications[appIdx]
           path == application.kustomization
           f == files[path]
           images == update_images(kustomize_get_images(f),
                                   application.images, tag)
       IN
       \/ /\ f.kind = "missing"            \* open(..., "r") raises
          /\ Leave(TRUE, "FileNotFoundError")
          /\ UNCHANGED <<files, applied, written>>
       \/ /\ f.kind = "invalid"            \* yaml.load or kustomize.get raises
          /\ Leave(TRUE, "YAMLError")
          /\ UNCHANGED <<files, applied, written>>
       \/ /\ f.kind = "doc" /\ f.key = "null"   \* for image in None
          /\ Leave(TRUE, "TypeError")
          /\ UNCHANGED <<files, applied, written>>
       \/ /\ f.kind = "doc" /\ f.key # "null"   \* open(..., "w") raises
          /\ Leave(TRUE, "OSError")
          /\ UNCHANGED <<files, applied, written>>
       \/ /\ f.kind = "doc" /\ f.key # "null"   \* yaml.dump raises
          /\ Leave(TRUE, "OSError")
          /\ files' = [files EXCEPT ![path] = File("invalid", "absent", << >>)]
          /\ UNCHANGED <<applied, written>>
       \/ /\ f.kind = "doc" /\ f.key # "null"
          /\ Leave(FALSE, "")
          /\ files' = [files EXCEPT ![path] = File("doc", "list", images)]
          /\ applied' = [applied EXCEPT ![path] =
                           IF Len(@) = 2 THEN <<@[2], tag>> ELSE Append(@, tag)]
          /\ written' = written \cup {path}
    /\ UNCHANGED <<origFiles, tag>>
    /\ UNCHANGED <<apiVars, startVars>>

----------------------------------------------------------------------------
(* Initial states and specifications *)

\* settings.py is evaluated once, when the backend package is imported
InitSettings(values) ==
    /\ envDisableAuth \in values
    /\ DISABLE_AUTH = settings_DISABLE_AUTH(envDisableAuth)

InitWorker ==
    /\ pc = "idle"
    /\ ip = 0
    /\ req = NoReq
    /\ program = << >>
    /\ trace = << >>
    /\ result = NoResult
    /\ clusterAtCall = << >>

\* a backend started with the default environment
DefaultEnv ==
    [APP_NAME |-> Unset, BACKEND_MODE |-> Unset, UI_FLAVOR |-> Unset,
     APP_PREFIX |-> Unset]

InitStarted ==
    /\ env = DefaultEnv
    /\ startPc = "serving"
    /\ cfg = [raised |-> FALSE, class |-> "ProdConfig", PREFIX |-> "/"]
    /\ apps = << create_app("default", "Volumes Web App", cfg) >>
    /\ exitCode = -1

\* the release script has not been run
InitNoRelease ==
    /\ files = [p \in Paths |-> File("missing", "absent", << >>)]
    /\ origFiles = files
    /\ applied = [p \in Paths |-> << >>]
    /\ tag = Unset
    /\ appIdx = 0
    /\ updPc = "shell"
    /\ updExit = -1
    /\ written = { }
    /\ failure = ""

PvcObjs == {PvcObj(n, ns, s) : n \in PvcNames, ns \in Namespaces, s \in Sizes}
TbObjs == {TbObj(n, ns) : n \in TbNames, ns \in Namespaces}

\* ---- the PVC operations ----
Init ==
    /\ InitSettings(EnvDisableValues)
    /\ cluster = << >>
    /\ tensorboards = << >>
    /\ InitWorker /\ InitStarted /\ InitNoRelease

Next ==
    \/ CreatePvc
    \/ DeletePvc
    \/ ListPvcs
    \/ PatchPvc
    \/ EnsureAuthorized
    \/ AdapterCall
    \/ Return

Spec == Init /\ [][Next]_vars

\* ---- the list operations, over any content of the cluster ----
InitList ==
    /\ InitSettings({Unset, "true"})
    /\ cluster \in {s \in SeqsUpTo(PvcObjs, MaxPvcs) : DistinctKeys(s)}
    /\ tensorboards \in {s \in SeqsUpTo(TbObjs, MaxTbs) : DistinctKeys(s)}
    /\ InitWorker /\ InitStarted /\ InitNoRelease

NextList ==
    \/ ListPvcs
    \/ GetTensorboards
    \/ EnsureAuthorized
    \/ AdapterCall
    \/ Return

SpecList == InitList /\ [][NextList]_vars

\* ---- start of the volumes backend ----
InitStartup ==
    /\ InitSettings(EnvDisableValues)
    /\ cluster = << >>
    /\ tensorboards = << >>
    /\ InitWorker /\ InitNoRelease
    /\ env \in EnvValues
    /\ startPc = "config"
    /\ cfg = NoConfig
    /\ apps = << >>
    /\ exitCode = -1

NextStartup ==
    \/ GetConfig
    \/ LoadApp

SpecStartup == InitStartup /\ [][NextStartup]_vars

\* ---- the release script, over any content of the kustomization files ----
InitUpdater ==
    /\ InitSettings({Unset})
    /\ cluster = << >>
    /\ tensorboards = << >>
    /\ InitWorker /\ InitStarted
    /\ files \in {f \in [Paths -> UNION {FilesOf(applications[i]) :
                                          i \in 1..Len(applications)}] :
                   \A i \in 1..Len(applications) :
                      f[applications[i].kustomization]
                          \in FilesOf(applications[i])}
    /\ origFiles = files
    /\ applied = [p \in Paths |-> << >>]
    /\ tag = Unset
    /\ appIdx = 0
    /\ updPc = "shell"
    /\ updExit = -1
    /\ written = { }
    /\ failure = ""

NextUpdater ==
    \/ RunUpdater
    \/ UpdateApp

SpecUpdater == InitUpdater /\ [][NextUpdater]_vars

----------------------------------------------------------------------------
(* Properties of the PVC operations (Spec) *)

IsGate(e) == e.call.api = "authz"
IsAdapter(e) == e.call.api \in {"v1_core", "custom_api"}
Gates == {i \in 1..Len(trace) : IsGate(trace[i])}
Adapters == {i \in 1..Len(trace) : IsAdapter(trace[i])}

VerbOf(op) ==
    CASE op = "create_pvc" -> "create"
      [] op = "delete_pvc" -> "delete"
      [] op = "list_pvcs" -> "list"
      [] op = "patch_pvc" -> "patch"
      [] OTHER -> "list"

\* every adapter call made so far came after a gate check of this
\* operation's verb and namespace that passed
GatePassedBeforeAdapter ==
    \A i \in Adapters :
        \E j \in 1..(i - 1) :
            /\ IsGate(trace[j])
            /\ trace[j].outcome = "ok"
            /\ trace[j].call.method = VerbOf(req.op)
            /\ trace[j].call.resource = PVC
            /\ trace[j].call.namespace = req.namespace

PvcOps == {"create_pvc", "delete_pvc", "list_pvcs", "patch_pvc"}
GuardedPvcOp == req.op \in PvcOps /\ ~(req.op = "patch_pvc" /\ req.auth = "False")

\* C1: in a guarded PVC operation (create_pvc, delete_pvc, list_pvcs, and
\* patch_pvc with auth enabled) every adapter call comes after the gate check
\* has passed; when the gate raises Unauthorized the operation ends with
\* Unauthorized, no adapter call has been made and the cluster is as it was
\* when the operation was invoked.
C1_GateBeforeAdapter ==
    GuardedPvcOp =>
        /\ GatePassedBeforeAdapter
        /\ (\E j \in Gates : trace[j].outcome = "Unauthorized") =>
              /\ pc = "done"
              /\ result.status = "Unauthorized"
              /\ Adapters = { }
              /\ cluster = clusterAtCall

\* bob, who may only list in ns1, was refused the deletion of a PVC that exists
C1_Witness ==
    /\ pc = "done"
    /\ req.op = "delete_pvc"
    /\ req.user = "bob"
    /\ result.status = "Unauthorized"
    /\ Exists(cluster, req.namespace, req.name)

\* C2: when APP_DISABLE_AUTH is "true" in any letter case, DISABLE_AUTH is
\* true and every guarded operation passes the gate and reaches the adapter
\* whoever the caller is; when it is unset or "false", DISABLE_AUTH is false.
C2_DisableAuthFlag ==
    /\ str_lower(envDisableAuth) = "true" =>
          /\ DISABLE_AUTH
          /\ (pc = "done" /\ GuardedPvcOp /\ req.auth = "omitted") =>
                /\ result.status # "Unauthorized"
                /\ Adapters # { }
    /\ envDisableAuth \in {Unset, "false"} => ~DISABLE_AUTH

\* C3: create_pvc sends dry-run mode "All" to the adapter when dry_run is
\* true and no dry-run mode when it is false or omitted, and a create_pvc with
\* dry_run=True leaves the PVCs of the cluster as they were.
C3_DryRunForwarded ==
    req.op = "create_pvc" =>
        /\ \A i \in Adapters :
              trace[i].call.dry_run =
                  (IF req.dry_run = "True" THEN "All" ELSE None)
        /\ req.dry_run = "True" => cluster = clusterAtCall

\* a dry-run creation of a PVC that does not exist succeeded
C3_Witness ==
    /\ pc = "done"
    /\ req.op = "create_pvc"
    /\ req.dry_run = "True"
    /\ result.status = "ok"
    /\ Adapters # { }
    /\ ~Exists(cluster, req.namespace, req.name)

\* C4 as claimed: every PVC operation takes an optional auth boolean; without
\* it or with auth=True the operation checks the gate first, with auth=False
\* it skips the gate and calls the adapter directly.
C4_EveryOperationTakesAuth ==
    (pc = "done" /\ req.op \in PvcOps) =>
        /\ req.auth \in {"omitted", "True"} =>
              /\ trace # << >>
              /\ IsGate(trace[1])
        /\ req.auth = "False" =>
              /\ Gates = { }
              /\ Cardinality(Adapters) = 1
        /\ GuardedPvcOp => GatePassedBeforeAdapter

\* C4 amended: only patch_pvc takes the optional auth boolean (default
\* true): without it or with auth=True it checks the gate first, with
\* auth=False it skips the gate and calls the adapter directly. create_pvc,
\* delete_pvc and list_pvcs take no such argument: they always check the
\* gate first, and passing auth raises TypeError before any call. No
\* operation reaches the adapter without a passed gate check while auth is
\* enabled.
C4_OnlyPatchTakesAuth ==
    /\ (pc = "done" /\ req.op = "patch_pvc") =>
          /\ req.auth \in {"omitted", "True"} =>
                /\ trace # << >>
                /\ IsGate(trace[1])
          /\ req.auth = "False" =>
                /\ Gates = { }
                /\ Cardinality(Adapters) = 1
    /\ (pc = "done" /\ req.op \in PvcOps \ {"patch_pvc"}) =>
          /\ req.auth = "omitted" =>
                /\ trace # << >>
                /\ IsGate(trace[1])
          /\ req.auth # "omitted" =>
                /\ trace = << >>
                /\ result.status = "TypeError"
    /\ GuardedPvcOp => GatePassedBeforeAdapter

\* bob, who may not patch, patched an existing PVC through auth=False
C4_Witness ==
    /\ pc = "done"
    /\ req.op = "patch_pvc"
    /\ req.auth = "False"
    /\ req.user = "bob"
    /\ result.status = "ok"
    /\ Gates = { }

\* C9: an invocation of a PVC operation makes at most one gate check and at
\* most one adapter call; a call that fails is the last call of the
\* invocation, and the operation ends with that call's error.
C9_NoRetry ==
    /\ Cardinality(Gates) <= 1
    /\ Cardinality(Adapters) <= 1
    /\ \A i \in 1..Len(trace) :
          trace[i].outcome # "ok" =>
              /\ i = Len(trace)
              /\ pc = "done"
              /\ result.status = trace[i].outcome

\* an adapter call that failed after the gate had passed
C9_Witness ==
    /\ pc = "done"
    /\ Len(trace) = 2
    /\ IsAdapter(trace[2])
    /\ result.status \in {"NotFound", "Conflict", "UpstreamError"}

----------------------------------------------------------------------------
(* Properties of the list operations (SpecList) *)

\* C8: list_pvcs returns what the adapter returned, unmodified; the payload
\* of the tensorboards route has one element per item the backend returned,
\* the i-th being the parse of the i-th item.
C8_ListOrder ==
    (pc = "done" /\ result.status = "ok") =>
        LET items == trace[Len(trace)].ret IN
        /\ req.op = "list_pvcs" => result.value = items
        /\ req.op = "get_tensorboards" =>
              /\ Len(result.value) = Len(items)
              /\ \A i \in 1..Len(items) :
                    result.value[i] = parse_tensorboard(items[i])

\* the route answered with two different tensorboards
C8_Witness ==
    /\ pc = "done"
    /\ req.op = "get_tensorboards"
    /\ result.status = "ok"
    /\ Len(result.value) = 2
    /\ result.value[1] # result.value[2]

----------------------------------------------------------------------------
(* Properties of the start of the volumes backend (SpecStartup) *)

ImplementedModes ==
    {BackendMode.DEVELOPMENT, BackendMode.DEVELOPMENT_FULL,
     BackendMode.PRODUCTION, BackendMode.PRODUCTION_FULL}
Flavors == {"default", "rok"}
\* the mode and the flavor in effect: the variable, or its default when unset
ModeInEffect ==
    IF env.BACKEND_MODE = Unset THEN BackendMode.PRODUCTION
                                ELSE env.BACKEND_MODE
FlavorInEffect == IF env.UI_FLAVOR = Unset THEN "default" ELSE env.UI_FLAVOR
StartupOver == startPc \in {"serving", "exited"}

\* C7: with a BACKEND_MODE that is not one of the four implemented modes,
\* get_config raises and the process ends with a non-zero exit code; with a
\* UI_FLAVOR other than "default" and "rok" the process exits with code 1; in
\* both cases no app is created. With a valid mode and flavor exactly one app
\* is created, of that flavor, with DevConfig for the development modes and
\* ProdConfig for the production modes.
C7_InvalidConfigIsFatal ==
    /\ Len(apps) <= 1
    /\ (ModeInEffect \notin ImplementedModes \/ FlavorInEffect \notin Flavors)
          => apps = << >>
    /\ StartupOver =>
          /\ ModeInEffect \notin ImplementedModes =>
                startPc = "exited" /\ exitCode > 0
          /\ FlavorInEffect \notin Flavors =>
                startPc = "exited" /\ exitCode = 1
          /\ (ModeInEffect \in ImplementedModes /\ FlavorInEffect \in Flavors)
                => /\ startPc = "serving"
                   /\ exitCode = -1
                   /\ Len(apps) = 1
                   /\ apps[1].flavor = FlavorInEffect
                   /\ apps[1].cfg.class =
                         (IF ModeInEffect \in {BackendMode.DEVELOPMENT,
                                                BackendMode.DEVELOPMENT_FULL}
                            THEN "DevConfig" ELSE "ProdConfig")

\* the backend was started with BACKEND_MODE=staging and a valid flavor
C7_Witness ==
    /\ startPc = "exited"
    /\ env.BACKEND_MODE = "staging"
    /\ env.UI_FLAVOR = "rok"
    /\ exitCode = 1

----------------------------------------------------------------------------
(* Properties of the release script (SpecUpdater) *)

TargetNames(a) == {a.images[k].name : k \in 1..Len(a.images)}
ListOf(f) == IF f.key = "list" THEN f.images ELSE << >>
Named(l, n) == {j \in 1..Len(l) : l[j].name = n}

\* what one iteration that wrote the file of application  a  back did to the
\* images list:  old  before,  new  after, tag  t
PatchedAsClaimed(a, old, new, t) ==
    /\ \A k \in 1..Len(a.images) :
          LET target == a.images[k]
              wanted == Image(target.name, target.newName, t)
          IN IF Named(old, target.name) # { }
               THEN \* the first entry of that name is updated, none is added
                    /\ \E j \in Named(old, target.name) :
                          /\ \A h \in Named(old, target.name) : j <= h
                          /\ new[j] = wanted
                    /\ Named(new, target.name) = Named(old, target.name)
               ELSE \* exactly one entry is appended, after the old ones
                    /\ Cardinality(Named(new, target.name)) = 1
                    /\ \E j \in (Len(old) + 1)..Len(new) : new[j] = wanted
    /\ Len(new) = Len(old)
           + Cardinality({k \in 1..Len(a.images) :
                            Named(old, a.images[k].name) = { }})
    /\ \A j \in 1..Len(old) :
          /\ new[j].name = old[j].name
          /\ old[j].name \notin TargetNames(a) => new[j] = old[j]

C5_Step ==
    (updPc = "loop" /\ appIdx' = appIdx + 1) =>
        LET a == applications[appIdx]
            path == a.kustomization
        IN /\ files'[path].kind = "doc"
           /\ files'[path].key = "list"
           /\ PatchedAsClaimed(a, ListOf(files[path]), files'[path].images, tag)
           /\ \A q \in Paths \ {path} : files'[q] = files[q]

\* C5: an iteration of update_manifests_images with tag T, for each target
\* image: if the images list has an entry of the target's name, that entry
\* (the first of that name) gets newTag T and the target's newName and no
\* entry is added; otherwise exactly one entry {name, newName, newTag=T} is
\* appended at the end; entries whose name is no target's are unchanged and
\* the entries that were there keep their order.
C5_MatchOrAppend == [][C5_Step]_vars

\* a file that held an unrelated entry followed by an entry of the target's
\* name with another newName has been rewritten
C5_Witness ==
    \E i \in 1..Len(applications) :
        LET a == applications[i]
            path == a.kustomization
            old == ListOf(origFiles[path])
        IN /\ applied[path] # << >>
           /\ files[path].kind = "doc"
           /\ Len(old) = 2
           /\ old[1].name \notin TargetNames(a)
           /\ old[2].name \in TargetNames(a)
           /\ old[2].newName # a.images[1].newName
           /\ files[path].images[2].newTag \in Tags

\* C6: the run exits with code 0 exactly when every kustomization file of
\* the list was read, patched and written back; once reading, parsing,
\* patching or writing a file has failed the run is over, with a non-zero
\* exit code.
C6_ExitCode ==
    /\ updPc = "loop" => failure = ""
    /\ updPc = "exited" =>
          /\ updExit = 0 <=> written = Paths
          /\ failure # "" => updExit > 0
          /\ updExit = 0 => failure = ""

\* the write of the second file failed after the first had been written
C6_Witness ==
    /\ updPc = "exited"
    /\ failure = "OSError"
    /\ updExit = 1
    /\ written # { }

\* C10: whatever runs have rewritten a file, its images list is the one a
\* single run with the tag of the last of them leaves from the original
\* list (absent lists and lists with several entries of one name included):
\* a second run with the same tag changes nothing, and the last tag wins.
C10_IdempotentLastTagWins ==
    \A i \in 1..Len(applications) :
        LET a == applications[i]
            path == a.kustomization
        IN (applied[path] # << >> /\ files[path].kind = "doc") =>
              /\ files[path].key = "list"
              /\ files[path].images =
                    update_images(ListOf(origFiles[path]), a.images,
                                  applied[path][Len(applied[path])])

\* a file whose list had two entries of the target's name was rewritten by a
\* run with v1 and then by a run with v2
C10_Witness ==
    \E i \in 1..Len(applications) :
        LET a == applications[i]
            path == a.kustomization
            old == ListOf(origFiles[path])
        IN /\ applied[path] = <<"v1", "v2">>
           /\ files[path].kind = "doc"
           /\ Cardinality(Named(old, a.images[1].name)) = 2

====
